---- MODULE Spec2Model ----
(***************************************************************************)
(* Model of the GitHub webhook receiver of pentops/o5-github-lambda:       *)
(* WebhookWorker.HandleLambda (src/internal/github/webhook.go) and the     *)
(* worker construction of src/cmd/lambda/lambda.go.                        *)
(*                                                                         *)
(* A request is handled in one synchronous call chain.  The local part of  *)
(* the handler (header lookup, media type, base64, signature, JSON         *)
(* decoding, validation, mapping) is one step; every call of a sink's      *)
(* Publish is a step of its own, because its outcome is decided outside    *)
(* the program.  The sender may deliver a request a second time.           *)
(*                                                                         *)
(* Spec runs one invocation after the other, SpecConcurrent runs           *)
(* invocations at the same time on one worker, and SpecPushID applies the  *)
(* derivation of the push identifier of src/unnamed/part_001.              *)
(***************************************************************************)
EXTENDS Naturals, Sequences, FiniteSets, TLC

VARIABLES
    secretToken,   \* WebhookWorker.secretToken
    publishers,    \* WebhookWorker.publishers: sequence of sink identifiers
    Source,        \* WebhookWorker.Source
    pc,            \* "idle" | "publishing" | "responded" | "panicked"
    n,             \* number of deliveries handled or in progress
    request,       \* the request being handled
    header,        \* what the lookups in the header built from the request give
    ctx,           \* the context of the request being handled
    stages,        \* the stages of HandleLambda the request has passed, in order
    wireMessage,   \* publish: the wrapped message
    idx,           \* publish: position of the next publisher in the loop
    output,        \* publish: the output lines collected so far
    calls,         \* the Publish calls made for the request, in order
    result,        \* what HandleLambda returned: (response, error)
    first,         \* the outcome of the first delivery, kept for the second
    inv,           \* concurrent invocations: the locals of each HandleLambda call
    pushIDs        \* the push identifiers derived so far (src/unnamed/part_001)

vars == <<secretToken, publishers, Source, pc, n, request, header, ctx, stages, wireMessage,
          idx, output, calls, result, first, inv, pushIDs>>

\* the variables of one invocation after the other
sequential ==
    <<pc, n, request, header, ctx, stages, wireMessage, idx, output, calls, result,
      first>>

\* the variables that the invocations one after the other leave alone
aside == <<inv, pushIDs>>

-----------------------------------------------------------------------------
(* Bounds and input alphabets *)

MaxSinks == 2

SinkIds == {"sns", "eventbridge"}

\* secrets a deployment may hold; "" is what json.Unmarshal leaves in
\* Secret.GithubWebhookSecret when the stored secret lacks the key
Secrets == {"", "s1"}

\* identifiers uuid.New may return inside o5msg.WrapMessage
MessageIds == {"uuid-1", "uuid-2"}

nil == "<nil>"

emptyCommit == "0000000000000000000000000000000000000000"

-----------------------------------------------------------------------------
(* JSON documents.  A document is the set of key paths it holds (every     *)
(* path with its parents) and the values of the keys whose value matters   *)
(* to the handler.  A text that is not JSON holds nothing.                 *)

PushJsonPaths ==
    {"ref", "before", "after", "repository", "repository.owner",
     "repository.owner.name", "repository.name"}

CheckRunJsonPaths ==
    {"action", "repository", "repository.owner", "repository.owner.login",
     "repository.name", "check_run", "check_run.name", "check_run.id",
     "check_run.check_suite", "check_run.check_suite.head_branch",
     "check_run.check_suite.before", "check_run.check_suite.after"}

\* <<child, parent>>: a key can only be present inside a present object
JsonParent ==
    {<<"repository.owner", "repository">>,
     <<"repository.name", "repository">>,
     <<"repository.owner.name", "repository.owner">>,
     <<"repository.owner.login", "repository.owner">>,
     <<"check_run.name", "check_run">>,
     <<"check_run.id", "check_run">>,
     <<"check_run.check_suite", "check_run">>,
     <<"check_run.check_suite.head_branch", "check_run.check_suite">>,
     <<"check_run.check_suite.before", "check_run.check_suite">>,
     <<"check_run.check_suite.after", "check_run.check_suite">>}

Closed(ps) == \A e \in JsonParent : e[1] \in ps => e[2] \in ps

AfterKeys == {"after", "check_run.check_suite.after"}

AfterValues == {emptyCommit, "bbbbbbbbbbbbbbbbbbbbbbbbbbbbbbbbbbbbbbbb"}

Doc(ps, a) == [json |-> TRUE, paths |-> ps, ref |-> "refs/heads/main", after |-> a]

DocsOver(keys) ==
    {Doc(ps, "") : ps \in {q \in SUBSET keys : Closed(q) /\ q \cap AfterKeys = {}}}
    \cup {Doc(ps, a) : ps \in {q \in SUBSET keys : Closed(q) /\ q \cap AfterKeys # {}},
                       a \in AfterValues}

PushDocs == DocsOver(PushJsonPaths)

CheckRunDocs == DocsOver(CheckRunJsonPaths)

NotJson == [json |-> FALSE, paths |-> {}, ref |-> "{not json", after |-> ""]

\* the empty text
Empty == [json |-> FALSE, paths |-> {}, ref |-> "", after |-> ""]

\* the documents sent with every combination of the envelope
CoreDocs ==
    {NotJson,
     Doc(PushJsonPaths, "bbbbbbbbbbbbbbbbbbbbbbbbbbbbbbbbbbbbbbbb"),
     Doc(PushJsonPaths, emptyCommit),
     Doc(CheckRunJsonPaths, "bbbbbbbbbbbbbbbbbbbbbbbbbbbbbbbbbbbbbbbb")}

-----------------------------------------------------------------------------
(* Request bodies and signatures.  A body text is a document as it stands  *)
(* ("raw"), its base64 encoding ("b64") or a form with the document in the *)
(* "payload" parameter ("form").  An HMAC is determined by algorithm, key  *)
(* and message and by nothing else.                                        *)

Encodings == {"raw", "b64", "form"}

Body(enc, doc) == [enc |-> enc, doc |-> doc]

hmac(alg, key, bytes) == <<alg, key, bytes>>

NoSignature == [prefix |-> "", mac |-> <<>>]

Signature(prefix, key, bytes) == [prefix |-> prefix, mac |-> hmac(prefix, key, bytes)]

\* the bytes a sender signs: what it sent before the gateway encoded it
SentBytes(body) == IF body.enc = "b64" THEN Body("raw", body.doc) ELSE body

OtherBytes == Body("raw", [json |-> TRUE, paths |-> {}, ref |-> "other", after |-> ""])

\* <<X-Hub-Signature-256, X-Hub-Signature>> header values a sender may set:
\* none, a signature under the key "s1" or under the key "s2", over the body
\* sent or over other bytes, or one under each key in the two headers
SignaturePairs(body) ==
    {<<NoSignature, NoSignature>>,
     <<Signature("sha256", "s1", SentBytes(body)), NoSignature>>,
     <<NoSignature, Signature("sha1", "s1", SentBytes(body))>>,
     <<Signature("sha256", "s2", SentBytes(body)), NoSignature>>,
     <<Signature("sha256", "s1", OtherBytes), NoSignature>>,
     <<Signature("sha256", "s2", SentBytes(body)), Signature("sha1", "s1", SentBytes(body))>>,
     <<Signature("sha256", "s1", SentBytes(body)), Signature("sha1", "s2", SentBytes(body))>>}

\* a header value without the "=" between hash name and digest
NoSeparator == [prefix |-> "", mac |-> <<"sha256deadbeef">>]

\* a header value whose digest is not a text of hex digits
NonHex == [prefix |-> "sha256", mac |-> <<"zz">>]

\* hex.EncodeToString of an HMAC: hex digits that tell nothing of the key
HexDigest == "5d41402abc4b2a76b9719d911017c592"

\* the text of a signature header value
SignatureText(signature) ==
    IF signature = NoSignature THEN ""
    ELSE IF signature.prefix = "" THEN signature.mac[1]
    ELSE IF Len(signature.mac) = 1 THEN signature.prefix \o "=" \o signature.mac[1]
    ELSE signature.prefix \o "=" \o HexDigest

ContentTypes ==
    {"application/json", "application/json; charset=utf-8",
     "application/x-www-form-urlencoded", "text/plain", ""}

EventTypes == {"push", "check_run", "issues", "bogus", ""}

DeliveryIDs == {"d-1", ""}

\* A request: the values of request.Headers under the keys of the headers
\* the handler reads ("" or NoSignature for a key the map does not hold),
\* the flag and the body.  sig256Lower and deliveryIDLower are the values
\* under a second key of the map, the same header name in lower case: <<>>
\* when the map has no such key, else <<value>>.
Request(sigs, delivery, ct, event, b64, body) ==
    [sig256 |-> sigs[1], sig1 |-> sigs[2], deliveryID |-> delivery,
     contentType |-> ct, event |-> event, IsBase64Encoded |-> b64, Body |-> body,
     sig256Lower |-> <<>>, deliveryIDLower |-> <<>>]

\* every envelope, around the core documents
EnvelopeRequests ==
    UNION {{Request(sigs, d, ct, ev, b64, Body(enc, doc)) :
                sigs \in SignaturePairs(Body(enc, doc)), d \in DeliveryIDs,
                ct \in ContentTypes, ev \in EventTypes, b64 \in BOOLEAN} :
           enc \in Encodings, doc \in CoreDocs}

\* every combination of present and missing fields, inside a good envelope
FieldRequests ==
    {Request(<<Signature("sha256", "s1", Body("raw", doc)), NoSignature>>, "d-1",
             "application/json", ev, FALSE, Body("raw", doc)) :
        doc \in PushDocs \cup CheckRunDocs, ev \in {"push", "check_run"}}

\* a complete push with a malformed signature value in either header
SignatureRequests ==
    LET doc == Doc(PushJsonPaths, "bbbbbbbbbbbbbbbbbbbbbbbbbbbbbbbbbbbbbbbb")
    IN  {Request(sigs, "d-1", "application/json", "push", FALSE, Body("raw", doc)) :
            sigs \in UNION {{<<sig, NoSignature>>, <<NoSignature, sig>>} :
                        sig \in {NoSeparator, NonHex,
                                 Signature("md5", "s1", Body("raw", doc))}}}

\* a complete push whose "ref" or "after" key holds the empty string
EmptyValueDocs ==
    {[json |-> TRUE, paths |-> PushJsonPaths, ref |-> "",
      after |-> "bbbbbbbbbbbbbbbbbbbbbbbbbbbbbbbbbbbbbbbb"],
     [json |-> TRUE, paths |-> PushJsonPaths, ref |-> "refs/heads/main", after |-> ""]}

EmptyValueRequests ==
    {Request(<<Signature("sha256", "s1", Body("raw", doc)), NoSignature>>, "d-1",
             "application/json", "push", FALSE, Body("raw", doc)) :
        doc \in EmptyValueDocs}

\* a complete, validly signed push whose header map holds the signature or
\* the delivery identifier under two keys that differ in letter case only,
\* with different values
DuplicateKeyRequests ==
    LET doc == Doc(PushJsonPaths, "bbbbbbbbbbbbbbbbbbbbbbbbbbbbbbbbbbbbbbbb")
        r == Request(<<Signature("sha256", "s1", Body("raw", doc)), NoSignature>>, "d-1",
                     "application/json", "push", FALSE, Body("raw", doc))
    IN  {[r EXCEPT !.deliveryIDLower = <<"">>],
         [r EXCEPT !.deliveryIDLower = <<"d-2">>],
         [r EXCEPT !.sig256Lower = <<Signature("sha256", "s2", Body("raw", doc))>>]}

Requests ==
    EnvelopeRequests \cup FieldRequests \cup SignatureRequests \cup EmptyValueRequests
        \cup DuplicateKeyRequests

NoRequest == Request(<<NoSignature, NoSignature>>, "", "", "", FALSE, Body("raw", NotJson))

-----------------------------------------------------------------------------
(* Library calls made by the handler: mime, encoding/base64 and            *)
(* go-github v47.1.0 (the version src/go.mod requires).                    *)

\* mime.ParseMediaType: the media type without its parameters
ParseMediaType(v) ==
    CASE v = "" -> [mediatype |-> "", err |-> "mime: no media type"]
      [] v = "application/json; charset=utf-8" ->
            [mediatype |-> "application/json", err |-> nil]
      [] OTHER -> [mediatype |-> v, err |-> nil]

\* base64.StdEncoding.DecodeString: only a base64 text decodes
DecodeString(body) ==
    IF body.enc = "b64"
    THEN [bytes |-> Body("raw", body.doc), err |-> nil]
    ELSE [bytes |-> body, err |-> "illegal base64 data at input byte 0"]

HashPrefixes == {"sha1", "sha256", "sha512"}

\* github.messageMAC: the digest and hash named by the signature value
messageMAC(signature) ==
    CASE signature = NoSignature -> "missing signature"
      [] signature.prefix = "" ->
            "error parsing signature \"" \o SignatureText(signature) \o "\""
      [] signature.prefix \notin HashPrefixes ->
            "unknown hash type prefix: \"" \o signature.prefix \o "\""
      [] Len(signature.mac) = 1 ->
            "error decoding signature \"" \o SignatureText(signature)
                \o "\": encoding/hex: invalid byte: U+007A 'z'"
      [] OTHER -> nil

\* github.checkMAC: hmac.Equal of the digest sent and the digest computed
checkMAC(message, signature, key) ==
    signature.mac = hmac(signature.prefix, key, message)

\* github.ValidateSignature
ValidateSignature(signature, payload, secret) ==
    IF messageMAC(signature) # nil THEN messageMAC(signature)
    ELSE IF ~checkMAC(payload, signature, secret) THEN "payload signature check failed"
    ELSE nil

\* github.ValidatePayloadFromBody: the payload of the body by content type;
\* the signature, computed over the whole body, is checked only when the
\* secret is not empty
ValidatePayloadFromBody(contentType, body, signature, secret) ==
    LET payload ==
            CASE contentType = "application/json" -> body
              [] contentType = "application/x-www-form-urlencoded" ->
                    IF body.enc = "form" THEN Body("raw", body.doc) ELSE Body("raw", Empty)
              [] OTHER -> Body("raw", Empty)
    IN  IF contentType \notin {"application/json", "application/x-www-form-urlencoded"}
        THEN [payload |-> payload,
              err |-> "webhook request has unsupported Content-Type " \o contentType]
        ELSE IF Len(secret) > 0 /\ ValidateSignature(signature, body, secret) # nil
        THEN [payload |-> payload, err |-> ValidateSignature(signature, body, secret)]
        ELSE [payload |-> payload, err |-> nil]

\* the event types of github.eventTypeMapping that the senders here use
KnownEventTypes == {"push", "check_run", "issues"}

\* <<JSON key path, field path>> of github.PushEvent
PushFields ==
    {<<"ref", "ref">>, <<"before", "before">>, <<"after", "after">>,
     <<"repository", "repo">>, <<"repository.owner", "repo.owner">>,
     <<"repository.owner.name", "repo.owner.name">>,
     <<"repository.name", "repo.name">>}

\* <<JSON key path, field path>> of github.CheckRunEvent
CheckRunFields ==
    {<<"action", "action">>, <<"repository", "repo">>,
     <<"repository.owner", "repo.owner">>,
     <<"repository.owner.login", "repo.owner.login">>,
     <<"repository.name", "repo.name">>, <<"check_run", "check_run">>,
     <<"check_run.name", "check_run.name">>, <<"check_run.id", "check_run.id">>,
     <<"check_run.check_suite", "check_run.check_suite">>,
     <<"check_run.check_suite.head_branch", "check_run.check_suite.head_branch">>,
     <<"check_run.check_suite.before", "check_run.check_suite.before_sha">>,
     <<"check_run.check_suite.after", "check_run.check_suite.after_sha">>}

Event(type, has, ref, after) == [type |-> type, has |-> has, ref |-> ref, after |-> after]

NoEvent == Event("", {}, "", "")

\* json.Unmarshal into the struct of the event type: a key of the document
\* sets the field it names, every other field stays nil
Unmarshal(type, doc) ==
    LET fields == CASE type = "push" -> PushFields
                    [] type = "check_run" -> CheckRunFields
                    [] OTHER -> {}
    IN  Event(type, {f[2] : f \in {g \in fields : g[1] \in doc.paths}}, doc.ref, doc.after)

\* github.ParseWebHook
ParseWebHook(messageType, payload) ==
    IF messageType \notin KnownEventTypes
    THEN [event |-> NoEvent, err |-> "unknown X-Github-Event in message: " \o messageType]
    ELSE IF payload.enc # "raw" \/ ~payload.doc.json
    THEN [event |-> NoEvent, err |-> "invalid character looking for beginning of value"]
    ELSE [event |-> Unmarshal(messageType, payload.doc), err |-> nil]

-----------------------------------------------------------------------------
(* What HandleLambda returns, or hands to publish                          *)

NoMsg ==
    [kind |-> "", DeliveryId |-> "", Action |-> "", Owner |-> "", Repo |-> "",
     CheckRunName |-> "", CheckRunId |-> "", Ref |-> "", Before |-> "", After |-> ""]

\* return &events.APIGatewayV2HTTPResponse{StatusCode, Body}, nil
Respond(status, body) ==
    [next |-> "return", status |-> status, body |-> body, err |-> nil,
     msg |-> NoMsg, stages |-> <<>>]

\* return nil, err
Fail(err) ==
    [next |-> "return", status |-> 0, body |-> "", err |-> err,
     msg |-> NoMsg, stages |-> <<>>]

\* return ww.publish(ctx, msg)
Publish(msg) ==
    [next |-> "publish", status |-> 0, body |-> "", err |-> nil,
     msg |-> msg, stages |-> <<>>]

\* the handler went past `stage` and ended as `out`
Passed(stage, out) == [out EXCEPT !.stages = <<stage>> \o @]

\* what reading through a nil pointer gives
nilDereference == "<nil pointer dereference>"

\* the value a present field of an event points to
Deref(event, field) ==
    CASE field \notin event.has -> nilDereference
      [] field = "ref" -> event.ref
      [] field \in {"after", "check_run.check_suite.after_sha"} -> event.after
      [] field \in {"before", "check_run.check_suite.before_sha"} ->
            "aaaaaaaaaaaaaaaaaaaaaaaaaaaaaaaaaaaaaaaa"
      [] field \in {"repo.owner.name", "repo.owner.login"} -> "o"
      [] field = "repo.name" -> "r"
      [] field = "action" -> "completed"
      [] field = "check_run.name" -> "build"
      [] field = "check_run.id" -> "42"
      [] field = "check_run.check_suite.head_branch" -> "main"
      [] OTHER -> ""

\* building the message read through a nil pointer: the handler panics
Panics(msg) ==
    \/ \E f \in DOMAIN msg : msg[f] = nilDereference
    \/ msg.Ref = "refs/heads/" \o nilDereference

-----------------------------------------------------------------------------
(* Validation *)

\* validateRepo checking the name of the repository before its owner
validateRepo_nameFirst(event) ==
    CASE "repo" \notin event.has -> "nil 'repo' on check_run event"
      [] "repo.name" \notin event.has -> "nil 'repo.name' on check_run event"
      [] "repo.owner" \notin event.has -> "nil 'repo.owner' on check_run event"
      [] "repo.owner.login" \notin event.has -> "nil 'repo.owner.login' on check_run event"
      [] OTHER -> nil

validateRepo(event) ==
    CASE "repo" \notin event.has -> "nil 'repo' on check_run event"
      [] "repo.owner" \notin event.has -> "nil 'repo.owner' on check_run event"
      [] "repo.owner.login" \notin event.has -> "nil 'repo.owner.login' on check_run event"
      [] "repo.name" \notin event.has -> "nil 'repo.name' on check_run event"
      [] OTHER -> nil

validateRepo1(event) ==
    CASE "repo" \notin event.has -> "nil 'repo' on check_run event"
      [] "repo.owner" \notin event.has -> "nil 'repo.owner' on check_run event"
      [] "repo.owner.name" \notin event.has -> "nil 'repo.owner.name' on check_run event"
      [] "repo.name" \notin event.has -> "nil 'repo.name' on check_run event"
      [] OTHER -> nil

\* validatePushEvent without the check of the before SHA
validatePushEvent_noBefore(event) ==
    IF "ref" \notin event.has THEN "nil 'ref' on push event"
    ELSE IF validateRepo1(event) # nil THEN validateRepo1(event)
    ELSE IF "after" \notin event.has THEN "nil 'after' on push event"
    ELSE nil

validatePushEvent(event) ==
    IF "ref" \notin event.has THEN "nil 'ref' on push event"
    ELSE IF validateRepo1(event) # nil THEN validateRepo1(event)
    ELSE IF "after" \notin event.has THEN "nil 'after' on push event"
    ELSE IF "before" \notin event.has THEN "nil 'before' on push event"
    ELSE nil

validateCheckRunEvent(event) ==
    IF "action" \notin event.has THEN "nil 'action' on check_run event"
    ELSE IF validateRepo(event) # nil THEN validateRepo(event)
    ELSE IF "check_run" \notin event.has THEN "nil 'check_run' on check_run event"
    ELSE IF "check_run.name" \notin event.has
         THEN "nil 'check_run.name' on check_run event"
    ELSE IF "check_run.id" \notin event.has
         THEN "nil 'check_run.id' on check_run event"
    ELSE IF "check_run.check_suite" \notin event.has
         THEN "nil 'check_run.check_suite' on check_run event"
    ELSE IF "check_run.check_suite.head_branch" \notin event.has
         THEN "nil 'check_run.check_suite.head_branch' on check_run event"
    ELSE IF "check_run.check_suite.before_sha" \notin event.has
         THEN "nil 'check_run.check_suite.before_sha' on check_run event"
    ELSE IF "check_run.check_suite.after_sha" \notin event.has
         THEN "nil 'check_run.check_suite.after_sha' on check_run event"
    ELSE nil

-----------------------------------------------------------------------------
(* The handler, up to the call of publish *)

handleCheckRunEvent(deliveryID, event) ==
    IF validateCheckRunEvent(event) # nil
    THEN Respond(400, validateCheckRunEvent(event))
    ELSE Passed("validateCheckRunEvent",
            Publish([kind |-> "check_run",
                     DeliveryId |-> deliveryID,
                     Action |-> Deref(event, "action"),
                     Owner |-> Deref(event, "repo.owner.login"),
                     Repo |-> Deref(event, "repo.name"),
                     CheckRunName |-> Deref(event, "check_run.name"),
                     CheckRunId |-> Deref(event, "check_run.id"),
                     Ref |-> "refs/heads/" \o Deref(event, "check_run.check_suite.head_branch"),
                     Before |-> Deref(event, "check_run.check_suite.before_sha"),
                     After |-> Deref(event, "check_run.check_suite.after_sha")]))

\* handlePushEvent answering a deletion push as a client error
handlePushEvent_rejectsDeletion(deliveryID, event) ==
    IF validatePushEvent(event) # nil
    THEN Respond(400, validatePushEvent(event))
    ELSE Passed("validatePushEvent",
            IF Deref(event, "after") = emptyCommit
            THEN Respond(400, "push event has empty after commit")
            ELSE Publish([kind |-> "push",
                          DeliveryId |-> deliveryID,
                          Action |-> "",
                          Owner |-> Deref(event, "repo.owner.name"),
                          Repo |-> Deref(event, "repo.name"),
                          CheckRunName |-> "",
                          CheckRunId |-> "",
                          Ref |-> Deref(event, "ref"),
                          Before |-> Deref(event, "before"),
                          After |-> Deref(event, "after")]))

handlePushEvent(deliveryID, event) ==
    IF validatePushEvent(event) # nil
    THEN Respond(400, validatePushEvent(event))
    ELSE Passed("validatePushEvent",
            IF Deref(event, "after") = emptyCommit
            THEN Respond(200, "push event has empty after commit - no event created")
            ELSE Publish([kind |-> "push",
                          DeliveryId |-> deliveryID,
                          Action |-> "",
                          Owner |-> Deref(event, "repo.owner.name"),
                          Repo |-> Deref(event, "repo.name"),
                          CheckRunName |-> "",
                          CheckRunId |-> "",
                          Ref |-> Deref(event, "ref"),
                          Before |-> Deref(event, "before"),
                          After |-> Deref(event, "after")]))

\* HandleLambda from the call of ParseWebHook on
HandleLambda_parse(r, deliveryID, verifiedPayload) ==
    LET parsed == ParseWebHook(r.event, verifiedPayload)
    IN  IF parsed.err # nil
        THEN Fail("parsing webhook: " \o parsed.err)
        ELSE Passed("ParseWebHook",
                CASE parsed.event.type = "push" -> handlePushEvent(deliveryID, parsed.event)
                  [] parsed.event.type = "check_run" ->
                        handleCheckRunEvent(deliveryID, parsed.event)
                  [] OTHER -> Respond(400, "unhandled event type " \o parsed.event.type))

\* HandleLambda from the decoding of the body on
HandleLambda_body(r, deliveryID, signature, contentType, secret) ==
    LET decoded == IF r.IsBase64Encoded THEN DecodeString(r.Body)
                   ELSE [bytes |-> r.Body, err |-> nil]
        verified == ValidatePayloadFromBody(contentType, decoded.bytes, signature, secret)
    IN  IF decoded.err # nil
        THEN Fail("decoding body: " \o decoded.err)
        ELSE IF verified.err # nil
        THEN Fail("validating payload: " \o verified.err)
        ELSE Passed("ValidatePayloadFromBody",
                HandleLambda_parse(r, deliveryID, verified.payload))

\* The values header.Get can give for a header after the loop that copies
\* request.Headers with header.Add: Add files the values of keys that
\* differ in letter case only under one canonical key, in the order in which
\* the loop meets them, and the order of a range over a map is not fixed;
\* Get gives the first value filed.  `absent` is the value of a key the map
\* does not hold.
Get(value, lower, absent) ==
    IF value = absent
    THEN IF lower = <<>> THEN {absent} ELSE {lower[1]}
    ELSE {value} \cup {lower[i] : i \in 1..Len(lower)}

\* the request as the lookups in the header built from it can give it
Headers(r) ==
    {[r EXCEPT !.sig256 = s, !.deliveryID = d] :
        s \in Get(r.sig256, r.sig256Lower, NoSignature),
        d \in Get(r.deliveryID, r.deliveryIDLower, "")}

\* HandleLambda without the check of the delivery identifier
HandleLambda_noDeliveryCheck(r, secret) ==
    LET signature == IF r.sig256 = NoSignature THEN r.sig1 ELSE r.sig256
        media == ParseMediaType(r.contentType)
    IN  Passed("deliveryID",
            IF media.err # nil
            THEN Fail("parse media type from '" \o r.contentType \o "': " \o media.err)
            ELSE Passed("ParseMediaType",
                    HandleLambda_body(r, r.deliveryID, signature, media.mediatype, secret)))

\* HandleLambda reading the SHA-1 signature header before the SHA-256 one
HandleLambda_sha1First(r, secret) ==
    LET signature == IF r.sig1 = NoSignature THEN r.sig256 ELSE r.sig1
        media == ParseMediaType(r.contentType)
    IN  IF r.deliveryID = ""
        THEN Respond(400, "missing delivery ID")
        ELSE Passed("deliveryID",
                IF media.err # nil
                THEN Fail("parse media type from '" \o r.contentType \o "': " \o media.err)
                ELSE Passed("ParseMediaType",
                        HandleLambda_body(r, r.deliveryID, signature, media.mediatype, secret)))

\* HandleLambda up to the return of a response or the call of publish
HandleLambda(r, secret) ==
    LET signature == IF r.sig256 = NoSignature THEN r.sig1 ELSE r.sig256
        media == ParseMediaType(r.contentType)
    IN  IF r.deliveryID = ""
        THEN Respond(400, "missing delivery ID")
        ELSE Passed("deliveryID",
                IF media.err # nil
                THEN Fail("parse media type from '" \o r.contentType \o "': " \o media.err)
                ELSE Passed("ParseMediaType",
                        HandleLambda_body(r, r.deliveryID, signature, media.mediatype, secret)))

-----------------------------------------------------------------------------
(* State *)

SinkLists == UNION {[1..k -> SinkIds] : k \in 0..MaxSinks}

NoWire == [MessageId |-> "", SourceApp |-> "", SourceEnv |-> "", body |-> NoMsg]

NoResult == [status |-> 0, body |-> "", err |-> nil]

NoFirst == [result |-> NoResult, wireMessage |-> NoWire, calls |-> <<>>]

RECURSIVE Join_reversed(_, _)
\* strings.Join putting the last line first
Join_reversed(lines, sep) ==
    IF Len(lines) = 0 THEN ""
    ELSE IF Len(lines) = 1 THEN lines[1]
    ELSE Join_reversed(Tail(lines), sep) \o sep \o lines[1]

RECURSIVE Join(_, _)
\* strings.Join
Join(lines, sep) ==
    IF Len(lines) = 0 THEN ""
    ELSE IF Len(lines) = 1 THEN lines[1]
    ELSE lines[1] \o sep \o Join(Tail(lines), sep)

\* the invocations that may run at the same time on one worker
Invocations == {"i1", "i2"}

\* the locals of an invocation that has not started
Idle ==
    [pc |-> "idle", request |-> NoRequest, stages |-> <<>>, wireMessage |-> NoWire,
     idx |-> 0, output |-> <<>>, calls |-> <<>>, result |-> NoResult]

\* the context an invocation gets: not cancelled; `at` is the position of
\* the loop of publish at which it was cancelled
Context == [id |-> "request", cancelled |-> FALSE, at |-> 0]

\* NewWebhookWorker, as called by do() of cmd/lambda
Init ==
    /\ secretToken \in Secrets
    /\ publishers \in SinkLists
    /\ Source = [SourceApp |-> "github-webhook", SourceEnv |-> "prod"]
    /\ pc = "idle"
    /\ n = 0
    /\ request = NoRequest
    /\ header = NoRequest
    /\ ctx = Context
    /\ stages = <<>>
    /\ wireMessage = NoWire
    /\ idx = 0
    /\ output = <<>>
    /\ calls = <<>>
    /\ result = NoResult
    /\ first = NoFirst
    /\ inv = [i \in Invocations |-> Idle]
    /\ pushIDs = <<>>

\* One invocation of HandleLambda on r, up to its return or to the first
\* Publish call.  The lookups in the header give one of the values the map
\* of the request allows.  o5msg.WrapMessage gives the message a new random
\* identifier (uuid.New) whatever the message holds.
Handle(r) ==
    \E h \in Headers(r) :
    LET out == HandleLambda(h, secretToken)
    IN  /\ request' = r
        /\ header' = h
        /\ ctx' = Context
        /\ stages' = out.stages
        /\ calls' = <<>>
        /\ IF out.next = "return"
           THEN /\ result' = [status |-> out.status, body |-> out.body, err |-> out.err]
                /\ pc' = "responded"
                /\ wireMessage' = NoWire
                /\ idx' = 0
                /\ output' = <<>>
           ELSE IF Panics(out.msg)
           THEN /\ result' = [status |-> 0, body |-> "",
                              err |-> "panic: runtime error: invalid memory address "
                                      \o "or nil pointer dereference"]
                /\ pc' = "panicked"
                /\ wireMessage' = NoWire
                /\ idx' = 0
                /\ output' = <<>>
           ELSE \E id \in MessageIds :
                /\ wireMessage' = [MessageId |-> id,
                                   SourceApp |-> Source.SourceApp,
                                   SourceEnv |-> Source.SourceEnv,
                                   body |-> out.msg]
                /\ output' = <<"O5 Message ID: " \o id>>
                /\ idx' = 1
                /\ pc' = "publishing"
                /\ result' = NoResult
        /\ UNCHANGED <<secretToken, publishers, Source>>
        /\ UNCHANGED aside

\* the gateway invokes the handler with a request
Deliver ==
    /\ pc = "idle"
    /\ n = 0
    /\ n' = 1
    /\ first' = first
    /\ \E r \in Requests : Handle(r)

\* the sender delivers the same webhook again
Redeliver ==
    /\ pc = "responded"
    /\ n = 1
    /\ n' = 2
    /\ first' = [result |-> result, wireMessage |-> wireMessage, calls |-> calls]
    /\ Handle(request)

\* the error a sink returns when its Publish fails
SinkError(sink) == "publish to " \o sink \o " failed"

\* Publisher.Publish(c, msg) of a sink: the call made under a cancelled
\* context fails; any other call succeeds or fails as the sink decides
Publisher_Publish(sink, c) ==
    IF c.cancelled THEN {SinkError(sink)} ELSE {nil, SinkError(sink)}

\* the context of the request is cancelled while a sink is being called
ctx_cancel ==
    /\ pc = "publishing"
    /\ idx <= Len(publishers)
    /\ ~ctx.cancelled
    /\ ctx' = [ctx EXCEPT !.cancelled = TRUE, !.at = idx]
    /\ UNCHANGED <<secretToken, publishers, Source, pc, n, request, header, stages,
                   wireMessage, idx, output, calls, result, first>>
    /\ UNCHANGED aside

\* publish going on to the next publisher after a failed Publish
publish_loop_ignoresError ==
    /\ pc = "publishing"
    /\ idx <= Len(publishers)
    /\ \E err \in Publisher_Publish(publishers[idx], ctx) :
        /\ calls' = Append(calls, [sink |-> publishers[idx], ctx |-> ctx.id,
                                   msg |-> wireMessage, err |-> err])
        /\ output' = Append(output, "Published to " \o publishers[idx])
        /\ idx' = idx + 1
        /\ UNCHANGED <<pc, result>>
    /\ UNCHANGED <<secretToken, publishers, Source, n, request, header, ctx, stages,
                   wireMessage, first>>
    /\ UNCHANGED aside

\* publish calling the sinks under context.Background()
publish_loop_backgroundContext ==
    /\ pc = "publishing"
    /\ idx <= Len(publishers)
    /\ \E err \in Publisher_Publish(publishers[idx],
                                     [id |-> "background", cancelled |-> FALSE, at |-> 0]) :
        /\ calls' = Append(calls, [sink |-> publishers[idx], ctx |-> "background",
                                   msg |-> wireMessage, err |-> err])
        /\ IF err # nil
           THEN /\ result' = [status |-> 0, body |-> "", err |-> err]
                /\ pc' = "responded"
                /\ UNCHANGED <<idx, output>>
           ELSE /\ output' = Append(output, "Published to " \o publishers[idx])
                /\ idx' = idx + 1
                /\ UNCHANGED <<pc, result>>
    /\ UNCHANGED <<secretToken, publishers, Source, n, request, header, ctx, stages,
                   wireMessage, first>>
    /\ UNCHANGED aside

\* publish: one turn of the loop over ww.publishers
publish_loop ==
    /\ pc = "publishing"
    /\ idx <= Len(publishers)
    /\ \E err \in Publisher_Publish(publishers[idx], ctx) :
        /\ calls' = Append(calls, [sink |-> publishers[idx], ctx |-> ctx.id,
                                   msg |-> wireMessage, err |-> err])
        /\ IF err # nil
           THEN /\ result' = [status |-> 0, body |-> "", err |-> err]
                /\ pc' = "responded"
                /\ UNCHANGED <<idx, output>>
           ELSE /\ output' = Append(output, "Published to " \o publishers[idx])
                /\ idx' = idx + 1
                /\ UNCHANGED <<pc, result>>
    /\ UNCHANGED <<secretToken, publishers, Source, n, request, header, ctx, stages,
                   wireMessage, first>>
    /\ UNCHANGED aside

\* publish: the return after the loop
publish_return ==
    /\ pc = "publishing"
    /\ idx > Len(publishers)
    /\ result' = [status |-> 200, body |-> "HOOK OK\n" \o Join(output, "\n"), err |-> nil]
    /\ pc' = "responded"
    /\ UNCHANGED <<secretToken, publishers, Source, n, request, header, ctx, stages,
                   wireMessage, idx, output, calls, first>>
    /\ UNCHANGED aside

Next == Deliver \/ Redeliver \/ ctx_cancel \/ publish_loop \/ publish_return

Spec == Init /\ [][Next]_vars

-----------------------------------------------------------------------------
(* Invocations of HandleLambda that run at the same time on one worker.    *)
(* Each has its own locals; the worker's fields are the only state they    *)
(* share.  A step is the local part of the handler or one Publish call.    *)

\* the requests the concurrent invocations handle: a push, a deletion push,
\* a check_run event, a push without signature and one without delivery
\* identifier; none holds a header under two keys
ConcurrentRequests ==
    LET push == Doc(PushJsonPaths, "bbbbbbbbbbbbbbbbbbbbbbbbbbbbbbbbbbbbbbbb")
        deletion == Doc(PushJsonPaths, emptyCommit)
        checkRun == Doc(CheckRunJsonPaths, "bbbbbbbbbbbbbbbbbbbbbbbbbbbbbbbbbbbbbbbb")
        signed(doc) == <<Signature("sha256", "s1", Body("raw", doc)), NoSignature>>
    IN  {Request(signed(push), "d-1", "application/json", "push", FALSE, Body("raw", push)),
         Request(signed(deletion), "d-1", "application/json", "push", FALSE,
                 Body("raw", deletion)),
         Request(signed(checkRun), "d-1", "application/json", "check_run", FALSE,
                 Body("raw", checkRun)),
         Request(<<NoSignature, NoSignature>>, "d-1", "application/json", "push", FALSE,
                 Body("raw", push)),
         Request(signed(push), "", "application/json", "push", FALSE, Body("raw", push))}

\* HandleLambda on r up to its return or to the first Publish call, with id
\* the identifier that o5msg.WrapMessage draws
Started(r, id) ==
    LET out == HandleLambda(r, secretToken)
    IN  IF out.next = "return"
        THEN [pc |-> "responded", request |-> r, stages |-> out.stages,
              wireMessage |-> NoWire, idx |-> 0, output |-> <<>>, calls |-> <<>>,
              result |-> [status |-> out.status, body |-> out.body, err |-> out.err]]
        ELSE [pc |-> "publishing", request |-> r, stages |-> out.stages,
              wireMessage |-> [MessageId |-> id,
                               SourceApp |-> Source.SourceApp,
                               SourceEnv |-> Source.SourceEnv,
                               body |-> out.msg],
              idx |-> 1, output |-> <<"O5 Message ID: " \o id>>, calls |-> <<>>,
              result |-> NoResult]

\* one turn of the loop of publish in an invocation with the locals l, the
\* Publish call handing msg to the sink and ending with err
Looped(l, msg, err) ==
    IF err # nil
    THEN [l EXCEPT !.calls = Append(@, [sink |-> publishers[l.idx], msg |-> msg, err |-> err]),
                   !.result = [status |-> 0, body |-> "", err |-> err],
                   !.pc = "responded"]
    ELSE [l EXCEPT !.calls = Append(@, [sink |-> publishers[l.idx], msg |-> msg, err |-> err]),
                   !.output = Append(@, "Published to " \o publishers[l.idx]),
                   !.idx = @ + 1]

\* the gateway invokes the handler while other invocations may be running
invocation_start(i) ==
    /\ inv[i].pc = "idle"
    /\ \E r \in ConcurrentRequests, id \in MessageIds :
          inv' = [inv EXCEPT ![i] = Started(r, id)]
    /\ UNCHANGED <<secretToken, publishers, Source>>
    /\ UNCHANGED sequential
    /\ UNCHANGED pushIDs

\* publish handing to the sink the message that any of the running
\* invocations has wrapped, as if the wrapped message were kept in the worker
invocation_publish_loop_sharedMessage(i) ==
    /\ inv[i].pc = "publishing"
    /\ inv[i].idx <= Len(publishers)
    /\ \E err \in Publisher_Publish(publishers[inv[i].idx], Context), j \in Invocations :
          /\ inv[j].wireMessage # NoWire
          /\ inv' = [inv EXCEPT ![i] = Looped(inv[i], inv[j].wireMessage, err)]
    /\ UNCHANGED <<secretToken, publishers, Source>>
    /\ UNCHANGED sequential
    /\ UNCHANGED pushIDs

\* publish in invocation i: one turn of the loop over ww.publishers
invocation_publish_loop(i) ==
    /\ inv[i].pc = "publishing"
    /\ inv[i].idx <= Len(publishers)
    /\ \E err \in Publisher_Publish(publishers[inv[i].idx], Context) :
          inv' = [inv EXCEPT ![i] = Looped(inv[i], inv[i].wireMessage, err)]
    /\ UNCHANGED <<secretToken, publishers, Source>>
    /\ UNCHANGED sequential
    /\ UNCHANGED pushIDs

\* publish in invocation i: the return after the loop
invocation_publish_return(i) ==
    /\ inv[i].pc = "publishing"
    /\ inv[i].idx > Len(publishers)
    /\ inv' = [inv EXCEPT ![i].result =
                    [status |-> 200, body |-> "HOOK OK\n" \o Join(inv[i].output, "\n"),
                     err |-> nil],
                 ![i].pc = "responded"]
    /\ UNCHANGED <<secretToken, publishers, Source>>
    /\ UNCHANGED sequential
    /\ UNCHANGED pushIDs

NextConcurrent ==
    \E i \in Invocations :
        \/ invocation_start(i)
        \/ invocation_publish_loop(i)
        \/ invocation_publish_return(i)

SpecConcurrent == Init /\ [][NextConcurrent]_vars

-----------------------------------------------------------------------------
(* The push identifier that the handler of src/unnamed/part_001 derives    *)
(* from a validated push event and reports as "O5 Message ID".             *)

MaxPushEvents == 2

\* values of "ref" and "after" that pass validatePushEvent: any string does
PushRefs == {"refs/heads/main", "refs/heads/a", "refs/heads/a/b", "refs/tags/v1"}

PushAfters == {"bbbbbbbbbbbbbbbbbbbbbbbbbbbbbbbbbbbbbbbb", "c", "b/c"}

pushNamespace == "B15B01C2-0228-49E7-8432-EA17E5A1B69C"

\* uuid.NewSHA1, the hash taken as injective: the identifier is determined
\* by the namespace and the data and by nothing else
NewSHA1(space, data) == <<space, data>>

\* uuid.NewSHA1(pushNamespace, []byte(fmt.Sprintf("%s/%s", ref, after)))
pushID(ref, after) == NewSHA1(pushNamespace, ref \o "/" \o after)

\* the handler derives the identifier of one more validated push event
derive_pushID ==
    /\ Len(pushIDs) < MaxPushEvents
    /\ \E ref \in PushRefs, after \in PushAfters :
          pushIDs' = Append(pushIDs, [ref |-> ref, after |-> after,
                                      pushID |-> pushID(ref, after)])
    /\ UNCHANGED <<secretToken, publishers, Source, inv>>
    /\ UNCHANGED sequential

SpecPushID == Init /\ [][derive_pushID]_vars

-----------------------------------------------------------------------------
(* Vocabulary of the properties, stated on the request and the             *)
(* configuration and not through the handler's own operators               *)

Range(seq) == {seq[i] : i \in 1..Len(seq)}

Delivered == n >= 1

\* the bytes HandleLambda hands to the signature check
ReceivedBytes ==
    IF request.IsBase64Encoded /\ request.Body.enc = "b64"
    THEN Body("raw", request.Body.doc)
    ELSE request.Body

\* the signature header value the handler reads
SignatureRead == IF header.sig256 # NoSignature THEN header.sig256 ELSE header.sig1

\* the signature is the HMAC of the received body under the configured
\* secret, with SHA-1, SHA-256 or SHA-512
SignedWithSecret ==
    /\ SignatureRead # NoSignature
    /\ SignatureRead.prefix \in {"sha1", "sha256", "sha512"}
    /\ SignatureRead.mac = hmac(SignatureRead.prefix, secretToken, ReceivedBytes)

\* the request got as far as the signature check with a body the check reads
ReachedVerification ==
    /\ Delivered
    /\ header.deliveryID # ""
    /\ request.contentType \in
          {"application/json", "application/json; charset=utf-8",
           "application/x-www-form-urlencoded"}
    /\ request.IsBase64Encoded => request.Body.enc = "b64"

\* the payload the body carries under its content type is a JSON document
PayloadIsJson ==
    /\ request.Body.doc.json
    /\ \/ /\ request.contentType \in {"application/json", "application/json; charset=utf-8"}
          /\ ReceivedBytes.enc = "raw"
       \/ /\ request.contentType = "application/x-www-form-urlencoded"
          /\ ReceivedBytes.enc = "form"

PassedVerification == "ValidatePayloadFromBody" \in Range(stages)

Decoded == "ParseWebHook" \in Range(stages)

Validated == Range(stages) \cap {"validatePushEvent", "validateCheckRunEvent"} # {}

ReachedPublish == wireMessage # NoWire

PushOrder ==
    <<"ref", "repo", "repo.owner", "repo.owner.name", "repo.name", "after", "before">>

CheckRunOrder ==
    <<"action", "repo", "repo.owner", "repo.owner.login", "repo.name", "check_run",
      "check_run.name", "check_run.id", "check_run.check_suite",
      "check_run.check_suite.head_branch", "check_run.check_suite.before_sha",
      "check_run.check_suite.after_sha">>

\* the fields of the order that the request's document does not hold
MissingIn(order, fields) ==
    {i \in 1..Len(order) :
        ~\E f \in fields : f[2] = order[i] /\ f[1] \in request.Body.doc.paths}

FirstMissing(order, fields) ==
    CHOOSE i \in MissingIn(order, fields) : \A j \in MissingIn(order, fields) : i <= j

-----------------------------------------------------------------------------
(* C1 *)

\* the order in which a published request passed the stages of the handler
StagesInOrder ==
    \E v \in {"validatePushEvent", "validateCheckRunEvent"} :
        stages = <<"deliveryID", "ParseMediaType", "ValidatePayloadFromBody",
                   "ParseWebHook", v>>

\* C1: a sink's Publish is invoked only for a request whose signature was
\* verified against the configured secret, whose payload was then decoded as
\* a push or check_run event and whose event then passed validation; a
\* request that fails an earlier stage causes no sink call.
C1_PublishOnlyAfterAllStages ==
    calls # <<>> =>
        /\ SignedWithSecret
        /\ Decoded /\ request.event \in {"push", "check_run"}
        /\ Validated
        /\ StagesInOrder

\* C1 (what remains true): with a secret configured, Publish is invoked only
\* after verification, decoding and validation, in this order.
C1_WithSecret_PublishOnlyAfterAllStages ==
    (calls # <<>> /\ secretToken # "") => C1_PublishOnlyAfterAllStages

-----------------------------------------------------------------------------
(* C2 *)

\* C2: publish invokes the sinks in the configured order, each at most once,
\* all with the same message; only the last call made can have failed, and
\* when it has, the handler has ended with that sink's error and no response,
\* so that the sinks after it are never invoked; a 200 response of publish
\* means every sink was invoked once and none failed.
C2_FanoutInOrderFailFast ==
    /\ Len(calls) <= Len(publishers)
    /\ \A i \in 1..Len(calls) :
          /\ calls[i].sink = publishers[i]
          /\ calls[i].msg = wireMessage
          /\ i < Len(calls) => calls[i].err = nil
    /\ (calls # <<>> /\ calls[Len(calls)].err # nil) =>
          /\ pc = "responded"
          /\ result = [status |-> 0, body |-> "", err |-> calls[Len(calls)].err]
          /\ result.err = SinkError(publishers[Len(calls)])
    /\ (pc = "responded" /\ ReachedPublish /\ result.err = nil) =>
          /\ result.status = 200
          /\ Len(calls) = Len(publishers)
          /\ \A i \in 1..Len(calls) : calls[i].err = nil
    /\ pc = "publishing" => Len(calls) = idx - 1

\* C2 witness: the first of two sinks failed, the second was not invoked and
\* the request ended with the first sink's error.
C2_Witness ==
    /\ pc = "responded"
    /\ Len(publishers) = 2
    /\ Len(calls) = 1
    /\ calls[1].err # nil
    /\ result.err = calls[1].err

-----------------------------------------------------------------------------
(* C3 *)

\* the five failures of verification and decoding that C3 names
SignatureMismatch ==
    /\ ReachedVerification
    /\ secretToken # ""
    /\ SignatureRead # NoSignature
    /\ ~SignedWithSecret

MissingSignature ==
    ReachedVerification /\ secretToken # "" /\ SignatureRead = NoSignature

UnparsableContentType == Delivered /\ header.deliveryID # "" /\ request.contentType = ""

BadBase64 ==
    /\ Delivered
    /\ header.deliveryID # ""
    /\ request.contentType # ""
    /\ request.IsBase64Encoded
    /\ request.Body.enc # "b64"

UnparsablePayload ==
    /\ PassedVerification
    /\ request.event \in KnownEventTypes
    /\ ~PayloadIsJson

\* C3: a signature mismatch, a missing signature header, an unparsable
\* Content-Type header, a body flagged base64 that does not decode and a
\* payload that does not parse as the claimed event kind are each answered
\* with a response of status 400 whose body is the error detail, never with
\* a handler error.
C3_FailuresAnswered400 ==
    (/\ pc = "responded"
     /\ \/ SignatureMismatch
        \/ MissingSignature
        \/ UnparsableContentType
        \/ BadBase64
        \/ UnparsablePayload)
    => /\ result.err = nil
       /\ result.status = 400
       /\ result.body # ""

-----------------------------------------------------------------------------
(* C4 *)

\* C4: handling the identical, validly signed push webhook twice gives the
\* wire message handed to the sinks, and the "O5 Message ID" line of the
\* response, the identical message id both times.
C4_RedeliverySameMessageId ==
    (/\ n = 2
     /\ request.event = "push"
     /\ SignedWithSecret
     /\ ReachedPublish)
    => /\ first.wireMessage # NoWire
       /\ wireMessage.MessageId = first.wireMessage.MessageId
       /\ output[1] = "O5 Message ID: " \o first.wireMessage.MessageId

-----------------------------------------------------------------------------
(* C5 *)

\* C5: a validated push event whose after SHA is the 40-zero sentinel gets
\* the 200 response with the skip message and causes no sink call, whatever
\* sinks are configured; a validated push event with any other after SHA
\* goes on to publish.
C5_DeletionPushSkipped ==
    (Delivered /\ "validatePushEvent" \in Range(stages)) =>
        IF request.Body.doc.after = emptyCommit
        THEN /\ pc = "responded"
             /\ result = [status |-> 200,
                          body |-> "push event has empty after commit - no event created",
                          err |-> nil]
             /\ calls = <<>>
             /\ ~ReachedPublish
        ELSE /\ ReachedPublish
             /\ wireMessage.body.kind = "push"
             /\ wireMessage.body.After = request.Body.doc.after
             /\ pc = "responded" => (Len(calls) = Len(publishers) \/ result.err # nil)

\* C5 witness: a deletion push answered 200 with two sinks configured and
\* neither invoked.
C5_Witness ==
    /\ pc = "responded"
    /\ "validatePushEvent" \in Range(stages)
    /\ request.Body.doc.after = emptyCommit
    /\ Len(publishers) = 2
    /\ result.status = 200
    /\ calls = <<>>

-----------------------------------------------------------------------------
(* C6 *)

\* C6: for a decoded push event with a required field missing, the first
\* missing field in the order ref, repo, repo.owner, repo.owner.name,
\* repo.name, after, before decides the result: a 400 response with the body
\* "nil '<path>' on push event" naming that path, and no sink call.
C6_PushFirstMissingFieldNamed ==
    (/\ Decoded
     /\ request.event = "push"
     /\ MissingIn(PushOrder, PushFields) # {})
    => /\ pc = "responded"
       /\ result = [status |-> 400,
                    body |-> "nil '" \o PushOrder[FirstMissing(PushOrder, PushFields)]
                             \o "' on push event",
                    err |-> nil]
       /\ calls = <<>>

-----------------------------------------------------------------------------
(* C7 *)

\* C7: for a decoded check_run event with a required field missing, the
\* first missing field in the order action, repo, repo.owner,
\* repo.owner.login, repo.name, check_run, check_run.name, check_run.id,
\* check_run.check_suite, check_run.check_suite.head_branch,
\* check_run.check_suite.before_sha, check_run.check_suite.after_sha decides
\* the result: a 400 response whose body names that path, and no sink call.
C7_CheckRunFirstMissingFieldNamed ==
    (/\ Decoded
     /\ request.event = "check_run"
     /\ MissingIn(CheckRunOrder, CheckRunFields) # {})
    => /\ pc = "responded"
       /\ result = [status |-> 400,
                    body |-> "nil '"
                             \o CheckRunOrder[FirstMissing(CheckRunOrder, CheckRunFields)]
                             \o "' on check_run event",
                    err |-> nil]
       /\ calls = <<>>

\* C7 witness: a check_run event that lacks only the after SHA of the check
\* suite is answered 400 naming check_run.check_suite.after_sha.
C7_Witness ==
    /\ pc = "responded"
    /\ Decoded
    /\ request.event = "check_run"
    /\ request.Body.doc.paths = CheckRunJsonPaths \ {"check_run.check_suite.after"}
    /\ result.status = 400
    /\ result.body = "nil 'check_run.check_suite.after_sha' on check_run event"

-----------------------------------------------------------------------------
(* C8 *)

\* C8: a validly signed request whose event type is anything but "push" or
\* "check_run", a type the parsing library does not know and the empty
\* type included, gets a 400 response, not a handler error, and causes no
\* sink call.
C8_OtherEventTypes400 ==
    (/\ pc = "responded"
     /\ PassedVerification
     /\ SignedWithSecret
     /\ PayloadIsJson
     /\ request.event \notin {"push", "check_run"})
    => /\ result.err = nil
       /\ result.status = 400
       /\ calls = <<>>

-----------------------------------------------------------------------------
(* C9 *)

\* C9: a request without a delivery identifier (or with an empty one) gets
\* a 400 response with the body "missing delivery ID", before any later
\* stage of the handler and with no sink call, whatever its signature,
\* content type, body and event type are.
C9_MissingDeliveryID ==
    (Delivered /\ request.deliveryID = "") =>
        /\ pc = "responded"
        /\ result = [status |-> 400, body |-> "missing delivery ID", err |-> nil]
        /\ stages = <<>>
        /\ calls = <<>>
        /\ ~ReachedPublish

\* C9 witness: a complete, validly signed push without a delivery
\* identifier is answered 400 "missing delivery ID".
C9_Witness ==
    /\ pc = "responded"
    /\ request.deliveryID = ""
    /\ secretToken # ""
    /\ SignedWithSecret
    /\ request.contentType = "application/json"
    /\ request.event = "push"
    /\ request.Body = Body("raw", Doc(PushJsonPaths, "bbbbbbbbbbbbbbbbbbbbbbbbbbbbbbbbbbbbbbbb"))
    /\ result.body = "missing delivery ID"

-----------------------------------------------------------------------------
(* C10 *)

\* C10: a request passes signature verification exactly when its signature
\* is the HMAC of the received body under the configured secret; a request
\* signed over another body or under another secret never passes, is never
\* decoded and is never published.
C10_AcceptedIffSignedWithSecret ==
    ReachedVerification =>
        /\ PassedVerification <=> SignedWithSecret
        /\ ~SignedWithSecret => (~Decoded /\ ~ReachedPublish /\ calls = <<>>)

-----------------------------------------------------------------------------
(* C11 *)

\* the value of a signature header is the HMAC of the received body under
\* the configured secret, with SHA-1, SHA-256 or SHA-512
ValidUnderSecret(signature) ==
    /\ signature # NoSignature
    /\ signature.prefix \in {"sha1", "sha256", "sha512"}
    /\ signature.mac = hmac(signature.prefix, secretToken, ReceivedBytes)

-----------------------------------------------------------------------------
(* C12 *)

RECURSIVE PublishedLines(_)
\* one "Published to" line for each of the first k configured sinks
PublishedLines(k) ==
    IF k = 0 THEN ""
    ELSE PublishedLines(k - 1) \o "\nPublished to " \o publishers[k]

\* C12: when every configured sink has accepted the message, the response
\* is 200, its body is "HOOK OK", the line with the message id of the wire
\* message and then one "Published to <sinkId>" line per configured sink in
\* configuration order, and every sink was invoked exactly once, with that
\* wire message.
C12_AllSinksAccepted ==
    (/\ pc = "responded"
     /\ ReachedPublish
     /\ \A i \in 1..Len(calls) : calls[i].err = nil)
    => /\ result.err = nil
       /\ result.status = 200
       /\ result.body = "HOOK OK\nO5 Message ID: " \o wireMessage.MessageId
                         \o PublishedLines(Len(publishers))
       /\ Len(calls) = Len(publishers)
       /\ \A i \in 1..Len(publishers) :
             /\ calls[i].sink = publishers[i]
             /\ calls[i].msg = wireMessage
             /\ calls[i].msg.MessageId = wireMessage.MessageId

\* C12 witness: two different sinks accepted the message and the response
\* lists both.
C12_Witness ==
    /\ pc = "responded"
    /\ ReachedPublish
    /\ publishers = <<"sns", "eventbridge">>
    /\ Len(calls) = 2
    /\ calls[2].err = nil
    /\ result.status = 200

-----------------------------------------------------------------------------
(* C13 *)

\* strings.Contains
Contains(s, t) ==
    \E i \in 1..(Len(s) + 1 - Len(t)) : SubSeq(s, i, i + Len(t) - 1) = t

\* C13: neither the body of the response nor the error that HandleLambda
\* returns contains the configured secret or the value of a signature
\* header of the request.
C13_NoSecretOrSignatureInOutput ==
    (Delivered /\ pc = "responded") =>
        \A text \in {result.body, result.err} :
            /\ secretToken # "" => ~Contains(text, secretToken)
            /\ \A signature \in {header.sig256, header.sig1} \ {NoSignature} :
                  ~Contains(text, SignatureText(signature))

-----------------------------------------------------------------------------
(* C14 *)

\* C14: every push message handed to a sink has a non-empty ref, before
\* SHA, after SHA, repository name and repository owner; a push payload
\* that holds one of them as the empty string is not published.
C14_PublishedPushFieldsNonEmpty ==
    \A i \in 1..Len(calls) :
        calls[i].msg.body.kind = "push" =>
            /\ calls[i].msg.body.Ref # ""
            /\ calls[i].msg.body.Before # ""
            /\ calls[i].msg.body.After # ""
            /\ calls[i].msg.body.Repo # ""
            /\ calls[i].msg.body.Owner # ""

-----------------------------------------------------------------------------
(* C15 *)

\* the locals l are those of an invocation that handles its request alone:
\* what the local part of the handler gives for the request and the
\* configured secret, and then the calls of the configured sinks in order,
\* all with the invocation's own message, stamped with the configured source
HandledAlone(l) ==
    \/ l = Idle
    \/ LET alone == HandleLambda(l.request, secretToken)
           k == Len(l.calls)
       IN  /\ l.pc \in {"publishing", "responded"}
           /\ l.stages = alone.stages
           /\ IF alone.next = "return"
              THEN /\ l.pc = "responded"
                   /\ l.result = [status |-> alone.status, body |-> alone.body,
                                  err |-> alone.err]
                   /\ l.calls = <<>>
                   /\ l.wireMessage = NoWire
              ELSE /\ l.wireMessage.body = alone.msg
                   /\ l.wireMessage.SourceApp = Source.SourceApp
                   /\ l.wireMessage.SourceEnv = Source.SourceEnv
                   /\ l.wireMessage.MessageId \in MessageIds
                   /\ k <= Len(publishers)
                   /\ \A j \in 1..k :
                         /\ l.calls[j].sink = publishers[j]
                         /\ l.calls[j].msg = l.wireMessage
                         /\ j < k => l.calls[j].err = nil
                   /\ l.pc = "publishing" =>
                         /\ l.result = NoResult
                         /\ \A j \in 1..k : l.calls[j].err = nil
                   /\ l.pc = "responded" =>
                         IF k > 0 /\ l.calls[k].err # nil
                         THEN l.result = [status |-> 0, body |-> "", err |-> l.calls[k].err]
                         ELSE /\ k = Len(publishers)
                              /\ l.result =
                                    [status |-> 200,
                                     body |-> "HOOK OK\nO5 Message ID: "
                                              \o l.wireMessage.MessageId
                                              \o PublishedLines(k),
                                     err |-> nil]

\* no step of an invocation writes the worker's fields
WorkerUnchanged ==
    /\ secretToken' = secretToken
    /\ publishers' = publishers
    /\ Source' = Source

\* C15: invocations of HandleLambda that run at the same time on one worker
\* never write the worker's secret, source configuration or list of sinks,
\* and under every interleaving each of them has the response and the
\* sequence of sink calls, with its own message stamped with the configured
\* source, that it has when it handles its request alone.
C15_NoInterference ==
    /\ [](\A i \in Invocations : HandledAlone(inv[i]))
    /\ [][WorkerUnchanged]_vars

\* C15 witness: two invocations are in the middle of their fan-out at the
\* same time, with different messages, and each has made its first call.
C15_Witness ==
    /\ Len(publishers) = 2
    /\ \A i \in Invocations : inv[i].pc = "publishing" /\ inv[i].idx = 2
    /\ inv["i1"].wireMessage.body.kind = "push"
    /\ inv["i2"].wireMessage.body.kind = "check_run"
    /\ inv["i1"].wireMessage.MessageId # inv["i2"].wireMessage.MessageId

-----------------------------------------------------------------------------
(* C16 *)

\* C16: two validated push events that differ in ref or in after SHA never
\* get the same identifier, the hash taken as injective: what is hashed
\* differs whenever the pair (ref, after) differs.
C16_DistinctPairsDistinctIds ==
    \A i, j \in 1..Len(pushIDs) :
        <<pushIDs[i].ref, pushIDs[i].after>> # <<pushIDs[j].ref, pushIDs[j].after>>
            => pushIDs[i].pushID # pushIDs[j].pushID

-----------------------------------------------------------------------------
(* C17 *)

-----------------------------------------------------------------------------
(* C18 *)

\* every Publish call of the run succeeded
AllAccepted(cs) == \A i \in 1..Len(cs) : cs[i].err = nil

\* C18: two runs of HandleLambda on the same request, with the same worker
\* and with sinks that behave the same (they accept every call), end the
\* same way: with the same error, or with responses of the same status.
C18_SameRequestSameResponse ==
    (/\ n = 2
     /\ pc = "responded"
     /\ AllAccepted(first.calls)
     /\ AllAccepted(calls))
    => /\ result.err = first.result.err
       /\ result.status = first.result.status

-----------------------------------------------------------------------------
(* C19 *)

\* the JSON keys behind the fields that handlePushEvent dereferences, the
\* after SHA compared with the sentinel included
PushDereferenced ==
    {"after", "before", "ref", "repository", "repository.name", "repository.owner",
     "repository.owner.name"}

\* the JSON keys behind the fields that handleCheckRunEvent dereferences
CheckRunDereferenced ==
    {"action", "repository", "repository.owner", "repository.owner.login",
     "repository.name", "check_run", "check_run.name", "check_run.id",
     "check_run.check_suite", "check_run.check_suite.head_branch",
     "check_run.check_suite.before", "check_run.check_suite.after"}

\* C19: no decoded push or check_run event makes the handler read a missing
\* field: the handler never panics, an event gets past its validator only
\* when the payload holds every field the mapping dereferences, and no
\* message handed to a sink holds a value read through a nil pointer.
C19_NoNilDereference ==
    /\ pc # "panicked"
    /\ "validatePushEvent" \in Range(stages) =>
          PushDereferenced \subseteq request.Body.doc.paths
    /\ "validateCheckRunEvent" \in Range(stages) =>
          CheckRunDereferenced \subseteq request.Body.doc.paths
    /\ \A i \in 1..Len(calls) : ~Panics(calls[i].msg.body)
    /\ (Decoded /\ request.event \in {"push", "check_run"} /\ ~Validated) =>
          (pc = "responded" /\ result.status = 400 /\ result.err = nil)

\* C19 witness: a check_run event with every field went through the mapping
\* and was handed to a sink with the values its payload holds.
C19_Witness ==
    /\ pc = "responded"
    /\ "validateCheckRunEvent" \in Range(stages)
    /\ request.Body.doc.paths = CheckRunJsonPaths
    /\ Len(calls) >= 1
    /\ calls[1].msg.body.After = request.Body.doc.after
    /\ calls[1].msg.body.Ref = "refs/heads/main"

====
